---- MODULE Spec2Model ----
(***************************************************************************)
(* The natural-language item manager: the response schema of the          *)
(* translator (llm_assistant.py), the scoped transaction and add_item     *)
(* (database.py) and the process_request dispatcher with its four action  *)
(* handlers (llm_database_app.py), over an SQLite item store.              *)
(*                                                                         *)
(* A string is a sequence of characters; a character is written as a      *)
(* one-token TLA+ string ("a", "A", " ", and "E_ACUTE"/"e_acute" for the  *)
(* non-ASCII letter pair).  An Optional value is a set with at most one   *)
(* element.                                                                *)
(***************************************************************************)
EXTENDS Integers, Sequences, FiniteSets, TLC

\* ------------------------------------------------------------ bounds
\* Highest identifier the items table hands out in a checked run.
MaxSeq == 2

\* ------------------------------------------------------------ Optional
Absent == {}
Present(x) == {x}
IsSet(o) == o # {}
Val(o) == CHOOSE x \in o : TRUE

\* ------------------------------------------------------------ strings
Empty == <<>>
Blank == <<" ">>

\* `not s` of Python is false for every non-empty string, blank ones included.
Truthy(s) == Len(s) > 0

IsSpace(ch) == ch = " "

\* str.lower() folds every cased letter, non-ASCII ones included.
PyLowerChar(ch) ==
    IF ch = "A" THEN "a"
    ELSE IF ch = "B" THEN "b"
    ELSE IF ch = "E_ACUTE" THEN "e_acute"
    ELSE ch

\* SQLite's built-in lower() folds the ASCII letters only.
SqlLowerChar(ch) ==
    IF ch = "A" THEN "a"
    ELSE IF ch = "B" THEN "b"
    ELSE ch

PyLower(s) == [i \in 1..Len(s) |-> PyLowerChar(s[i])]

SqlLower(s) == [i \in 1..Len(s) |-> SqlLowerChar(s[i])]

SetMin(S) == CHOOSE x \in S : \A y \in S : x <= y

SetMax(S) == CHOOSE x \in S : \A y \in S : x >= y

\* str.strip(): drop the leading and the trailing whitespace.
Strip(s) ==
    LET keep == {i \in 1..Len(s) : ~IsSpace(s[i])}
    IN  IF keep = {} THEN Empty ELSE SubSeq(s, SetMin(keep), SetMax(keep))

\* content.strip().lower(), the key of the duplicate check.
Normalize(s) == PyLower(Strip(s))

\* ------------------------------------------------------------ item store
\* The items table: rows [id, content, user_id]; db.seq is the AUTOINCREMENT
\* counter (sqlite_sequence), part of the transaction like the rows.
NewDb == [rows |-> {}, seq |-> 0]

RowsOf(rows, uid) == {r \in rows : r.user_id = uid}

\* SELECT id FROM items WHERE lower(content) = ? AND user_id = ?
SelectIdsByLowerContent(rows, key, uid) ==
    {r.id : r \in {x \in RowsOf(rows, uid) : SqlLower(x.content) = key}}

\* cursor.fetchone(): the first row in rowid order, or None.
FetchOne(ids) == IF ids = {} THEN Absent ELSE Present(SetMin(ids))

\* Mutant: an INSERT storing the key of the duplicate check.
InsertItem_Lowercased(db, content, uid) ==
    [rows |-> db.rows \cup {[id |-> db.seq + 1, content |-> PyLower(content), user_id |-> uid]},
     seq  |-> db.seq + 1]

\* INSERT INTO items (content, user_id) VALUES (?, ?); the new rowid is
\* cursor.lastrowid.
InsertItem(db, content, uid) ==
    [rows |-> db.rows \cup {[id |-> db.seq + 1, content |-> content, user_id |-> uid]},
     seq  |-> db.seq + 1]

\* Mutant: the WHERE clause without its user_id condition.
MatchingRows_AnyOwner(rows, content, uid) ==
    {r \in rows : r.content = content}

\* Mutant: the WHERE clause comparing as the duplicate check of Insert does.
MatchingRows_Normalized(rows, content, uid) ==
    {r \in RowsOf(rows, uid) : Normalize(r.content) = Normalize(content)}

\* The rows a "WHERE content = ? AND user_id = ?" selects (binary comparison).
MatchingRows(rows, content, uid) ==
    {r \in RowsOf(rows, uid) : r.content = content}

\* UPDATE items SET content = ? WHERE content = ? AND user_id = ?
UpdateItems(db, new, old, uid) ==
    LET hit == MatchingRows(db.rows, old, uid)
    IN  [rows |-> (db.rows \ hit) \cup
                  {[id |-> r.id, content |-> new, user_id |-> r.user_id] : r \in hit},
         seq  |-> db.seq]

\* Mutant: a DELETE removing the rows the duplicate check of Insert matches.
DeleteItems_Normalized(db, content, uid) ==
    [rows |-> db.rows \ {r \in RowsOf(db.rows, uid) :
                            Normalize(r.content) = Normalize(content)},
     seq  |-> db.seq]

\* DELETE FROM items WHERE content = ? AND user_id = ?
DeleteItems(db, content, uid) ==
    [rows |-> db.rows \ MatchingRows(db.rows, content, uid), seq |-> db.seq]

\* cursor.rowcount after an UPDATE or DELETE with that WHERE clause.
RowCount(rows, content, uid) == Cardinality(MatchingRows(rows, content, uid))

RECURSIVE ContentsInIdOrder(_)
ContentsInIdOrder(rows) ==
    IF rows = {} THEN <<>>
    ELSE LET first == CHOOSE r \in rows : \A o \in rows : r.id <= o.id
         IN  <<first.content>> \o ContentsInIdOrder(rows \ {first})

\* Mutant: the query without its WHERE clause.
SelectContents_AllOwners(rows, uid) == ContentsInIdOrder(rows)

\* SELECT content FROM items WHERE user_id = ? ; fetchall()
SelectContents(rows, uid) == ContentsInIdOrder(RowsOf(rows, uid))

\* ------------------------------------------------------------ response schema
Actions == {"INSERT", "UPDATE", "DELETE", "QUERY"}

\* InsertData / UpdateData / WhereClause: content is a required string.
ClauseValid(clause) == IsSet(clause.content)

ParseClause(o) ==
    IF IsSet(o) THEN Present([content |-> Val(Val(o).content)]) ELSE Absent

\* DatabaseOperation: action and table are literals, data and where are
\* optional and, when given, must validate as their own models.
DatabaseOperationValid(op) ==
    /\ op.action \in Actions
    /\ op.table = "items"
    /\ IsSet(op.data) => ClauseValid(Val(op.data))
    /\ IsSet(op.where) => ClauseValid(Val(op.where))

ParseOperation(o) ==
    IF IsSet(o)
    THEN Present([action |-> Val(o).action, table |-> Val(o).table,
                  data |-> ParseClause(Val(o).data),
                  where |-> ParseClause(Val(o).where)])
    ELSE Absent

\* Mutant: the validator forgetting the suggestion.
CheckExclusiveFields_OperationOnly(database_operation, ambiguous_request, suggestion) ==
    ~(IsSet(ambiguous_request) /\ IsSet(database_operation))

\* The model validator of LLMResponse: TRUE when it returns self, FALSE when
\* it raises ValueError.
CheckExclusiveFields(database_operation, ambiguous_request, suggestion) ==
    ~(IsSet(ambiguous_request) /\ (IsSet(database_operation) \/ IsSet(suggestion)))

\* Mutant: action typed as a plain string instead of a Literal.
LLMResponse_AnyAction(raw) ==
    IF /\ IsSet(raw.database_operation) =>
            LET op == Val(raw.database_operation)
            IN  /\ IsSet(op.data) => ClauseValid(Val(op.data))
                /\ IsSet(op.where) => ClauseValid(Val(op.where))
       /\ CheckExclusiveFields(raw.database_operation, raw.ambiguous_request, raw.suggestion)
    THEN Present([database_operation |-> ParseOperation(raw.database_operation),
                  ambiguous_request  |-> raw.ambiguous_request,
                  suggestion         |-> raw.suggestion])
    ELSE Absent

\* Constructing an LLMResponse from the parsed JSON of the model output: the
\* instance, or Absent when validation raises.
LLMResponse(raw) ==
    IF /\ IsSet(raw.database_operation) => DatabaseOperationValid(Val(raw.database_operation))
       /\ CheckExclusiveFields(raw.database_operation, raw.ambiguous_request, raw.suggestion)
    THEN Present([database_operation |-> ParseOperation(raw.database_operation),
                  ambiguous_request  |-> raw.ambiguous_request,
                  suggestion         |-> raw.suggestion])
    ELSE Absent

\* LLMAssistant.get_database_operation_from_text: None without a chain, None
\* when the chain raises (the model call fails, its text is no JSON, the JSON
\* fails validation), else the LLMResponse.
GetDatabaseOperationFromText(chain, raw) ==
    IF ~chain THEN Absent
    ELSE IF raw.kind # "json" THEN Absent
    ELSE LLMResponse(raw)

\* Mutant: a translator that calls the model whether or not it has a chain.
ChainInvocations_Always(chain) == 1

\* Number of calls of the external model one translate call makes.
ChainInvocations(chain) == IF chain THEN 1 ELSE 0

\* ------------------------------------------------------------ inputs
UserIds == {1, 2}

Procs == {"p1", "p2"}

\* Insert " A " stores "A"; "E_ACUTE" is an upper-case non-ASCII letter.
Contents == {Empty, Blank, <<"a">>, <<" ", "A", " ">>, <<"E_ACUTE">>}

\* The new contents an Update is asked to store.
NewContents == {Empty, <<"a">>, <<" ", "A", " ">>}

Messages == {"which one?", "items only"}

Suggestions == {[message |-> "you may also like", items |-> <<<<"b">>>>]}

NoRaw ==
    [kind |-> "none", database_operation |-> Absent,
     ambiguous_request |-> Absent, suggestion |-> Absent]

Clause(c) == Present([content |-> Present(c)])

RawClauses == {Absent} \cup {Clause(c) : c \in Contents}

RawOp(action, data, where) ==
    [action |-> action, table |-> "items", data |-> data, where |-> where]

\* The operations a model output may carry: every payload shape the handlers
\* read, and the shapes the schema rejects.
RawOperations ==
    {RawOp("INSERT", d, Absent) : d \in RawClauses}
    \cup {RawOp("UPDATE", d, w) :
            d \in {Absent} \cup {Clause(c) : c \in NewContents}, w \in RawClauses}
    \cup {RawOp("DELETE", Absent, w) : w \in RawClauses}
    \cup {RawOp("QUERY", Absent, Absent)}
    \cup {RawOp("DROP", Absent, Absent),
          [RawOp("QUERY", Absent, Absent) EXCEPT !.table = "users"],
          RawOp("INSERT", Present([content |-> Absent]), Absent)}

\* The operations a model output may carry together with a suggestion.
SuggestedOperations ==
    {op \in RawOperations :
        /\ op.data \in {Absent, Clause(<<"a">>)}
        /\ op.where \in {Absent, Clause(<<"a">>)}}

RawJson(op, amb, sug) ==
    [kind |-> "json", database_operation |-> op,
     ambiguous_request |-> amb, suggestion |-> sug]

OptSuggestions == {Absent} \cup {Present(x) : x \in Suggestions}

\* What the external model may answer: a failed call, text that is no JSON,
\* or JSON with any combination of the three top-level fields.
RawOutputs ==
    {[NoRaw EXCEPT !.kind = "raise"], [NoRaw EXCEPT !.kind = "garbage"]}
    \cup {RawJson(Present(op), Absent, Absent) : op \in RawOperations}
    \cup {RawJson(Present(op), Absent, s) : op \in SuggestedOperations, s \in OptSuggestions}
    \cup {RawJson(o, Present([message |-> m]), s) :
            o \in {Absent, Present(RawOp("DELETE", Absent, Clause(<<"a">>)))},
            m \in Messages, s \in OptSuggestions}
    \cup {RawJson(Absent, Absent, s) : s \in OptSuggestions}

\* request.get_json() of a POST, by what the view makes of it: kind "missing"
\* is no JSON body or a falsy one ({}, [], 0, ""); "not_object" a truthy JSON
\* value that is no object ([1], "x", true, 5), on which data.get raises
\* AttributeError; "no_text" an object whose text is missing or falsy;
\* "string" an object whose content is that string; "number" an object whose
\* content is truthy and not a string (5).
Body(kind, content) == [kind |-> kind, content |-> content]

\* The bodies of /process-request that carry no text.
TextlessBodies ==
    {Body("missing", Empty), Body("not_object", Empty), Body("no_text", Empty)}

\* The bodies of /items/add.
AddBodies ==
    {Body("missing", Empty), Body("not_object", Empty), Body("number", Empty)}
    \cup {Body("string", c) : c \in Contents}

\* ------------------------------------------------------------ state
VARIABLES
    db,      \* the committed items table: [rows, seq]
    lock,    \* Optional process whose connection holds SQLite's write lock
    chain,   \* whether LLMAssistant was built with an API key (self.chain)
    pc,      \* per process: where its call stands
    call,    \* per process: the endpoint called, its arguments, and the
             \* committed table as it was when the call began (history)
    llm,     \* per process: whether the translator was asked, the model
             \* output and the translator's result
    conn,    \* per process: the connection of managed_cursor and its history
    res,     \* per process: the response the call returns
    trace    \* per process: model calls, handlers run, statements executed

vars == <<db, lock, chain, pc, call, llm, conn, res, trace>>

NoCall ==
    [endpoint |-> "none", body |-> "none", user_id |-> 0, content |-> Empty,
     before |-> NewDb]

NoLlm == [asked |-> FALSE, raw |-> NoRaw, response |-> Absent]

NoConn ==
    [open |-> FALSE, commit_on_exit |-> FALSE, tx |-> Absent, body |-> "none",
     opened |-> 0, commits |-> 0, rollbacks |-> 0, closes |-> 0]

NoMessage == [text |-> "", args |-> <<>>, n |-> 0]

NoPayload ==
    [success |-> "absent", error |-> "", message |-> NoMessage,
     itemId |-> Absent, action_type |-> "", suggestion |-> Absent]

NoRes == [status |-> 0, payload |-> NoPayload, raised |-> FALSE]

NoTrace == [llm_calls |-> 0, handlers |-> <<>>, stmts |-> <<>>]

Init ==
    /\ db = NewDb
    /\ lock = Absent
    /\ chain \in BOOLEAN
    /\ pc = [p \in Procs |-> "idle"]
    /\ call = [p \in Procs |-> NoCall]
    /\ llm = [p \in Procs |-> NoLlm]
    /\ conn = [p \in Procs |-> NoConn]
    /\ res = [p \in Procs |-> NoRes]
    /\ trace = [p \in Procs |-> NoTrace]

\* ------------------------------------------------------------ managed_cursor
\* conn = self.get_connection(); the body runs on conn.cursor().
GetConnection(c, commit_on_exit) ==
    [c EXCEPT !.open = TRUE, !.commit_on_exit = commit_on_exit, !.tx = Absent,
              !.body = "running", !.opened = @ + 1]

\* The table as the connection's statements see it: its own uncommitted
\* transaction, else the committed table.
View(c) == IF IsSet(c.tx) THEN Val(c.tx) ELSE db

\* The table after conn.commit().
Committed(store, tx) == IF IsSet(tx) THEN Val(tx) ELSE store

\* The table after conn.rollback().
RolledBack(store, tx) == store

\* finally: conn.close()
Closed(c) == [c EXCEPT !.open = FALSE, !.tx = Absent, !.closes = @ + 1]

\* Mutant: a with block that rolls back what its body left pending.
ExitNormally_RollsBack(c, store) ==
    [store |-> RolledBack(store, c.tx),
     conn  |-> Closed([c EXCEPT !.rollbacks = @ + 1])]

\* Mutant: the with block left without the commit.
ExitNormally_NoCommit(c, store) == [store |-> store, conn |-> Closed(c)]

\* managed_cursor after the yield when the body returned: commit if
\* commit_on_exit, then close.  [store, conn] afterwards.
ExitNormally(c, store) ==
    IF c.commit_on_exit
    THEN [store |-> Committed(store, c.tx),
          conn  |-> Closed([c EXCEPT !.commits = @ + 1])]
    ELSE [store |-> store, conn |-> Closed(c)]

\* Mutant: the except branch committing what the body wrote.
ExitRaising_Commits(c, store) ==
    [store |-> Committed(store, c.tx),
     conn  |-> Closed([c EXCEPT !.commits = @ + 1])]

\* managed_cursor's except and finally: rollback, close (and re-raise).
ExitRaising(c, store) ==
    [store |-> RolledBack(store, c.tx),
     conn  |-> Closed([c EXCEPT !.rollbacks = @ + 1])]

\* A write statement starts the connection's transaction and takes the write
\* lock, which another connection's open transaction denies it.
CanWrite(p) == lock = Absent \/ lock = Present(p)

Statement(t, name) == [t EXCEPT !.stmts = Append(@, name)]

\* ------------------------------------------------------------ responses
Message(text, args, n) == [text |-> text, args |-> args, n |-> n]

ErrorPayload(text) == [NoPayload EXCEPT !.error = text]

MutationPayload(success, message) ==
    [NoPayload EXCEPT !.success = success, !.message = message,
                      !.action_type = "mutation"]

\* Mutant: the response builder without its test of the status code.
BuildFinalResponse_AnyStatus(base_response_data, status_code, llm_response) ==
    IF IsSet(llm_response) /\ IsSet(Val(llm_response).suggestion)
    THEN [base_response_data EXCEPT !.suggestion = Val(llm_response).suggestion]
    ELSE base_response_data

\* _build_final_response: the suggestion block goes on successful outcomes.
BuildFinalResponse(base_response_data, status_code, llm_response) ==
    IF /\ status_code < 300
       /\ IsSet(llm_response)
       /\ IsSet(Val(llm_response).suggestion)
    THEN [base_response_data EXCEPT !.suggestion = Val(llm_response).suggestion]
    ELSE base_response_data

Response(status, payload) == [status |-> status, payload |-> payload, raised |-> FALSE]

\* handle_generic_exception: what the caller gets when the call raised.
InternalError ==
    [status |-> 500, payload |-> ErrorPayload("An internal server error occurred."),
     raised |-> TRUE]

\* The content an insert call was asked to add.
RequestContent(p) ==
    IF call[p].endpoint = "add_item" THEN call[p].content
    ELSE Val(Val(Val(llm[p].response).database_operation).data).content

\* ------------------------------------------------------------ process_request
\* The operation the dispatcher routes (db_op) and the caller.
DbOp(p) == Val(Val(llm[p].response).database_operation)

Uid(p) == call[p].user_id

\* process_request without a JSON body, or with a body without text: 400
\* before any transaction is opened; with a body that is no object,
\* data.get('text') raises and the error handler answers 500, no transaction
\* having been opened either.
ProcessRequest_NoText(p, uid, body) ==
    /\ pc[p] = "idle"
    /\ call' = [call EXCEPT ![p] =
                    [endpoint |-> "process_request", body |-> body.kind,
                     user_id |-> uid, content |-> Empty, before |-> db]]
    /\ llm' = [llm EXCEPT ![p] = NoLlm]
    /\ conn' = [conn EXCEPT ![p] = NoConn]
    /\ trace' = [trace EXCEPT ![p] = NoTrace]
    /\ res' = [res EXCEPT ![p] =
                    IF body.kind = "missing"
                    THEN Response(400, ErrorPayload("Invalid or missing JSON body"))
                    ELSE IF body.kind = "not_object" THEN InternalError
                    ELSE Response(400, ErrorPayload("No text provided"))]
    /\ pc' = [pc EXCEPT ![p] = "done"]
    /\ UNCHANGED <<db, lock, chain>>

\* with user_db.managed_cursor() as cursor:
ProcessRequest_Begin(p, uid) ==
    /\ pc[p] = "idle"
    /\ call' = [call EXCEPT ![p] =
                    [endpoint |-> "process_request", body |-> "text",
                     user_id |-> uid, content |-> Empty, before |-> db]]
    /\ llm' = [llm EXCEPT ![p] = NoLlm]
    /\ conn' = [conn EXCEPT ![p] = GetConnection(NoConn, TRUE)]
    /\ trace' = [trace EXCEPT ![p] = NoTrace]
    /\ res' = [res EXCEPT ![p] = NoRes]
    /\ pc' = [pc EXCEPT ![p] = "ctx_select"]
    /\ UNCHANGED <<db, lock, chain>>

\* SELECT id, content FROM items WHERE user_id = ? : the context of the prompt.
ProcessRequest_Context(p) ==
    /\ pc[p] = "ctx_select"
    /\ trace' = [trace EXCEPT ![p] = Statement(@, "SELECT id, content")]
    /\ pc' = [pc EXCEPT ![p] = "translate"]
    /\ UNCHANGED <<db, lock, chain, call, llm, conn, res>>

\* Mutant: _handle_insert testing only that data is given.
HandleInsert_Check_DataOnly(db_op) ==
    IF ~IsSet(db_op.data)
    THEN [pc |-> "exit",
          res |-> Response(400, ErrorPayload("Missing 'content' in the data for INSERT."))]
    ELSE [pc |-> "ins_select", res |-> NoRes]

\* _handle_insert up to its first statement.
HandleInsert_Check(db_op) ==
    IF ~IsSet(db_op.data) \/ ~Truthy(Val(db_op.data).content)
    THEN [pc |-> "exit",
          res |-> Response(400, ErrorPayload("Missing 'content' in the data for INSERT."))]
    ELSE [pc |-> "ins_select", res |-> NoRes]

\* _handle_update up to its statement.
HandleUpdate_Check(db_op) ==
    LET new_ok == IsSet(db_op.data) /\ Truthy(Val(db_op.data).content)
        old_ok == IsSet(db_op.where) /\ Truthy(Val(db_op.where).content)
    IN  IF ~new_ok \/ ~old_ok
        THEN [pc |-> "exit",
              res |-> Response(400, ErrorPayload("UPDATE requires 'content' in both 'data' and 'where' clauses."))]
        ELSE [pc |-> "upd_exec", res |-> NoRes]

\* _handle_delete up to its statement.
HandleDelete_Check(db_op) ==
    IF ~IsSet(db_op.where) \/ ~Truthy(Val(db_op.where).content)
    THEN [pc |-> "exit",
          res |-> Response(400, ErrorPayload("DELETE action requires 'content' in the 'where' clause."))]
    ELSE [pc |-> "del_exec", res |-> NoRes]

\* Mutant: a dispatcher whose DELETE entry names the query handler.
Dispatch_DeleteQueries(db_op) ==
    IF db_op.action = "INSERT" THEN HandleInsert_Check(db_op)
    ELSE IF db_op.action = "UPDATE" THEN HandleUpdate_Check(db_op)
    ELSE IF db_op.action \in {"DELETE", "QUERY"} THEN [pc |-> "qry_select", res |-> NoRes]
    ELSE [pc |-> "exit",
          res |-> Response(400, ErrorPayload("Unknown or unsupported action: " \o db_op.action))]

\* The action dispatcher: the handler of the action tag, entered once.
Dispatch(db_op) ==
    IF db_op.action = "INSERT" THEN HandleInsert_Check(db_op)
    ELSE IF db_op.action = "UPDATE" THEN HandleUpdate_Check(db_op)
    ELSE IF db_op.action = "DELETE" THEN HandleDelete_Check(db_op)
    ELSE IF db_op.action = "QUERY" THEN [pc |-> "qry_select", res |-> NoRes]
    ELSE [pc |-> "exit",
          res |-> Response(400, ErrorPayload("Unknown or unsupported action: " \o db_op.action))]

\* Mutant: process_request listing the items when no operation was given.
Interpret_QueriesByDefault(llm_response) ==
    IF ~IsSet(llm_response)
    THEN [pc |-> "exit", handlers |-> <<>>,
          res |-> Response(500, ErrorPayload("Failed to understand the request or LLM is not configured."))]
    ELSE IF IsSet(Val(llm_response).ambiguous_request)
    THEN [pc |-> "exit", handlers |-> <<>>,
          res |-> Response(400, [NoPayload EXCEPT !.success = "false",
                                    !.error = Val(Val(llm_response).ambiguous_request).message])]
    ELSE IF ~IsSet(Val(llm_response).database_operation)
    THEN [pc |-> "qry_select", handlers |-> <<"QUERY">>, res |-> NoRes]
    ELSE LET db_op == Val(Val(llm_response).database_operation)
             d == Dispatch(db_op)
         IN  [pc |-> d.pc,
              handlers |-> IF db_op.action \in Actions THEN <<db_op.action>> ELSE <<>>,
              res |-> [d.res EXCEPT !.payload =
                          BuildFinalResponse(d.res.payload, d.res.status, llm_response)]]

\* Mutant: process_request without its ambiguous_request branch.
Interpret_IgnoresAmbiguity(llm_response) ==
    IF ~IsSet(llm_response)
    THEN [pc |-> "exit", handlers |-> <<>>,
          res |-> Response(500, ErrorPayload("Failed to understand the request or LLM is not configured."))]
    ELSE IF ~IsSet(Val(llm_response).database_operation)
    THEN [pc |-> "exit", handlers |-> <<>>,
          res |-> Response(500, ErrorPayload("LLM did not return a valid database operation."))]
    ELSE LET db_op == Val(Val(llm_response).database_operation)
             d == Dispatch(db_op)
         IN  [pc |-> d.pc,
              handlers |-> IF db_op.action \in Actions THEN <<db_op.action>> ELSE <<>>,
              res |-> [d.res EXCEPT !.payload =
                          BuildFinalResponse(d.res.payload, d.res.status, llm_response)]]

\* process_request from the translator's answer to the handler's first
\* statement: [pc, res, handlers].
Interpret(llm_response) ==
    IF ~IsSet(llm_response)
    THEN [pc |-> "exit", handlers |-> <<>>,
          res |-> Response(500, ErrorPayload("Failed to understand the request or LLM is not configured."))]
    ELSE IF IsSet(Val(llm_response).ambiguous_request)
    THEN [pc |-> "exit", handlers |-> <<>>,
          res |-> Response(400, [NoPayload EXCEPT !.success = "false",
                                    !.error = Val(Val(llm_response).ambiguous_request).message])]
    ELSE IF ~IsSet(Val(llm_response).database_operation)
    THEN [pc |-> "exit", handlers |-> <<>>,
          res |-> Response(500, ErrorPayload("LLM did not return a valid database operation."))]
    ELSE LET db_op == Val(Val(llm_response).database_operation)
             d == Dispatch(db_op)
         IN  [pc |-> d.pc,
              handlers |-> IF db_op.action \in Actions THEN <<db_op.action>> ELSE <<>>,
              res |-> [d.res EXCEPT !.payload =
                          BuildFinalResponse(d.res.payload, d.res.status, llm_response)]]

\* llm_assistant.get_database_operation_from_text(...) and what
\* process_request makes of its answer.
ProcessRequest_Translate(p, raw) ==
    /\ pc[p] = "translate"
    /\ LET llm_response == GetDatabaseOperationFromText(chain, raw)
           next == Interpret(llm_response)
       IN  /\ llm' = [llm EXCEPT ![p] = [asked |-> TRUE,
                                         raw |-> IF chain THEN raw ELSE NoRaw,
                                         response |-> llm_response]]
           /\ trace' = [trace EXCEPT ![p].llm_calls = @ + ChainInvocations(chain),
                                     ![p].handlers = @ \o next.handlers]
           /\ res' = [res EXCEPT ![p] = next.res]
           /\ pc' = [pc EXCEPT ![p] = next.pc]
           /\ conn' = [conn EXCEPT ![p].body = IF next.pc = "exit" THEN "returned" ELSE @]
    /\ UNCHANGED <<db, lock, chain, call>>

\* The handler returned: _build_final_response, then the with block is left.
Finish(p, status, payload) ==
    Response(status, BuildFinalResponse(payload, status, llm[p].response))

\* _handle_insert: the duplicate check.
HandleInsert_Select(p) ==
    /\ pc[p] = "ins_select"
    /\ LET content == Val(DbOp(p).data).content
           existing_item == FetchOne(SelectIdsByLowerContent(
                                View(conn[p]).rows, Normalize(content), Uid(p)))
       IN  /\ trace' = [trace EXCEPT ![p] = Statement(@, "SELECT id")]
           /\ IF IsSet(existing_item)
              THEN /\ res' = [res EXCEPT ![p] = Finish(p, 409,
                          [MutationPayload("false", Message("already exists", <<content>>, 0))
                              EXCEPT !.itemId = existing_item])]
                   /\ conn' = [conn EXCEPT ![p].body = "returned"]
                   /\ pc' = [pc EXCEPT ![p] = "exit"]
              ELSE /\ pc' = [pc EXCEPT ![p] = "ins_insert"]
                   /\ UNCHANGED <<res, conn>>
    /\ UNCHANGED <<db, lock, chain, call, llm>>

\* _handle_insert: the INSERT of the stripped content.
HandleInsert_Insert(p) ==
    /\ pc[p] = "ins_insert"
    /\ CanWrite(p)
    /\ View(conn[p]).seq < MaxSeq
    /\ LET content == Val(DbOp(p).data).content
           tx == InsertItem(View(conn[p]), Strip(content), Uid(p))
       IN  /\ conn' = [conn EXCEPT ![p].tx = Present(tx), ![p].body = "returned"]
           /\ res' = [res EXCEPT ![p] = Finish(p, 201,
                          [MutationPayload("true", Message("Item added successfully.", <<>>, 0))
                              EXCEPT !.itemId = Present(tx.seq)])]
    /\ lock' = Present(p)
    /\ trace' = [trace EXCEPT ![p] = Statement(@, "INSERT")]
    /\ pc' = [pc EXCEPT ![p] = "exit"]
    /\ UNCHANGED <<db, chain, call, llm>>

\* _handle_update: the UPDATE, and the outcome by cursor.rowcount.
HandleUpdate_Execute(p) ==
    /\ pc[p] = "upd_exec"
    /\ CanWrite(p)
    /\ LET new_content == Val(DbOp(p).data).content
           old_content == Val(DbOp(p).where).content
           updated_rows == RowCount(View(conn[p]).rows, old_content, Uid(p))
           tx == UpdateItems(View(conn[p]), new_content, old_content, Uid(p))
       IN  /\ conn' = [conn EXCEPT ![p].tx = Present(tx), ![p].body = "returned"]
           /\ res' = [res EXCEPT ![p] =
                  IF updated_rows = 0
                  THEN Finish(p, 404, MutationPayload("false",
                           Message("No item found with that content to update.", <<>>, 0)))
                  ELSE Finish(p, 200, MutationPayload("true",
                           Message("Successfully updated item(s).", <<>>, updated_rows)))]
    /\ lock' = Present(p)
    /\ trace' = [trace EXCEPT ![p] = Statement(@, "UPDATE")]
    /\ pc' = [pc EXCEPT ![p] = "exit"]
    /\ UNCHANGED <<db, chain, call, llm>>

\* _handle_delete: the DELETE, and the outcome by cursor.rowcount.
HandleDelete_Execute(p) ==
    /\ pc[p] = "del_exec"
    /\ CanWrite(p)
    /\ LET content_to_delete == Val(DbOp(p).where).content
           deleted_rows == RowCount(View(conn[p]).rows, content_to_delete, Uid(p))
           tx == DeleteItems(View(conn[p]), content_to_delete, Uid(p))
       IN  /\ conn' = [conn EXCEPT ![p].tx = Present(tx), ![p].body = "returned"]
           /\ res' = [res EXCEPT ![p] =
                  IF deleted_rows = 0
                  THEN Finish(p, 404, MutationPayload("false",
                           Message("No item found with that content to delete.", <<>>, 0)))
                  ELSE Finish(p, 200, MutationPayload("true",
                           Message("Successfully deleted item(s).", <<>>, deleted_rows)))]
    /\ lock' = Present(p)
    /\ trace' = [trace EXCEPT ![p] = Statement(@, "DELETE")]
    /\ pc' = [pc EXCEPT ![p] = "exit"]
    /\ UNCHANGED <<db, chain, call, llm>>

\* The message of _handle_query for the contents it fetched.
QueryMessage(query_items) ==
    IF Len(query_items) = 0
    THEN Message("You do not have any items on your list.", <<>>, 0)
    ELSE IF Len(query_items) = 1
    THEN Message("You have one item: '{0}'.", <<query_items[1]>>, 1)
    ELSE Message("Your items are: '{0}', '{1}', ... .", query_items, Len(query_items))

\* _handle_query
HandleQuery_Select(p) ==
    /\ pc[p] = "qry_select"
    /\ LET query_items == SelectContents(View(conn[p]).rows, Uid(p))
       IN  res' = [res EXCEPT ![p] = Finish(p, 200,
                      [NoPayload EXCEPT !.success = "true",
                                        !.message = QueryMessage(query_items),
                                        !.action_type = "query"])]
    /\ conn' = [conn EXCEPT ![p].body = "returned"]
    /\ trace' = [trace EXCEPT ![p] = Statement(@, "SELECT content")]
    /\ pc' = [pc EXCEPT ![p] = "exit"]
    /\ UNCHANGED <<db, lock, chain, call, llm>>

\* ------------------------------------------------------------ add_item
\* UserDatabase.add_item up to its first with block: content.strip() raises
\* AttributeError on a content that is no string, before any connection is
\* opened; else the read-only transaction of the existence check is opened.
AddItem_Enter(body) ==
    IF body.kind = "string"
    THEN [raised |-> FALSE, conn |-> GetConnection(NoConn, FALSE)]
    ELSE [raised |-> TRUE, conn |-> NoConn]

\* add_suggested_item (/items/add) up to the first statement of add_item:
\* 400 without a JSON body, the raise of data.get('content') on a body that
\* is no object, 400 without content, else the call of add_item.
AddSuggestedItem_Begin(p, uid, body) ==
    /\ pc[p] = "idle"
    /\ call' = [call EXCEPT ![p] =
                    [endpoint |-> "add_item", body |-> body.kind,
                     user_id |-> uid, content |-> body.content, before |-> db]]
    /\ llm' = [llm EXCEPT ![p] = NoLlm]
    /\ trace' = [trace EXCEPT ![p] = NoTrace]
    /\ IF body.kind = "missing"
       THEN /\ conn' = [conn EXCEPT ![p] = NoConn]
            /\ res' = [res EXCEPT ![p] = Response(400, ErrorPayload("Invalid or missing JSON body"))]
            /\ pc' = [pc EXCEPT ![p] = "done"]
       ELSE IF body.kind = "not_object"
       THEN /\ conn' = [conn EXCEPT ![p] = NoConn]
            /\ res' = [res EXCEPT ![p] = InternalError]
            /\ pc' = [pc EXCEPT ![p] = "done"]
       ELSE IF body.kind = "string" /\ ~Truthy(body.content)
       THEN /\ conn' = [conn EXCEPT ![p] = NoConn]
            /\ res' = [res EXCEPT ![p] = Response(400, ErrorPayload("No content provided"))]
            /\ pc' = [pc EXCEPT ![p] = "done"]
       ELSE /\ conn' = [conn EXCEPT ![p] = AddItem_Enter(body).conn]
            /\ res' = [res EXCEPT ![p] =
                        IF AddItem_Enter(body).raised THEN InternalError ELSE NoRes]
            /\ pc' = [pc EXCEPT ![p] =
                        IF AddItem_Enter(body).raised THEN "done" ELSE "add_select"]
    /\ UNCHANGED <<db, lock, chain>>

\* add_item: the existence check in the transaction that is not committed;
\* its with block is left, and the inserting transaction is opened when no
\* item was found.
AddItem_Select(p) ==
    /\ pc[p] = "add_select"
    /\ LET content == call[p].content
           existing_item == FetchOne(SelectIdsByLowerContent(
                                View(conn[p]).rows, Normalize(content), Uid(p)))
           closed == ExitNormally([conn[p] EXCEPT !.body = "returned"], db).conn
       IN  IF IsSet(existing_item)
           THEN /\ res' = [res EXCEPT ![p] = Response(409,
                       [NoPayload EXCEPT !.success = "false",
                                         !.message = Message("already exists", <<content>>, 0),
                                         !.itemId = existing_item])]
                /\ conn' = [conn EXCEPT ![p] = closed]
                /\ pc' = [pc EXCEPT ![p] = "done"]
           ELSE /\ conn' = [conn EXCEPT ![p] = GetConnection(closed, TRUE)]
                /\ pc' = [pc EXCEPT ![p] = "add_insert"]
                /\ UNCHANGED res
    /\ trace' = [trace EXCEPT ![p] = Statement(@, "SELECT id")]
    /\ UNCHANGED <<db, lock, chain, call, llm>>

\* add_item: the INSERT in the committing transaction.
AddItem_Insert(p) ==
    /\ pc[p] = "add_insert"
    /\ CanWrite(p)
    /\ View(conn[p]).seq < MaxSeq
    /\ LET tx == InsertItem(View(conn[p]), Strip(call[p].content), Uid(p))
       IN  /\ conn' = [conn EXCEPT ![p].tx = Present(tx), ![p].body = "returned"]
           /\ res' = [res EXCEPT ![p] = Response(201,
                      [NoPayload EXCEPT !.success = "true",
                                        !.message = Message("Item added successfully.", <<>>, 0),
                                        !.itemId = Present(tx.seq)])]
    /\ lock' = Present(p)
    /\ trace' = [trace EXCEPT ![p] = Statement(@, "INSERT")]
    /\ pc' = [pc EXCEPT ![p] = "exit"]
    /\ UNCHANGED <<db, chain, call, llm>>

\* ------------------------------------------------------------ faults and exits
StatementPcs ==
    {"ctx_select", "ins_select", "ins_insert", "upd_exec", "del_exec",
     "qry_select", "add_select", "add_insert"}

\* cursor.execute raises sqlite3.Error (the database is locked, the disk
\* fails): the statement changed nothing and the with block is left raising.
StorageFault(p) ==
    /\ pc[p] \in StatementPcs
    /\ conn' = [conn EXCEPT ![p].body = "raised"]
    /\ pc' = [pc EXCEPT ![p] = "except"]
    /\ UNCHANGED <<db, lock, chain, call, llm, res, trace>>

\* conn.commit() raises: it stands inside the try block of managed_cursor.
CommitFault(p) ==
    /\ pc[p] = "exit"
    /\ conn[p].commit_on_exit
    /\ pc' = [pc EXCEPT ![p] = "except"]
    /\ UNCHANGED <<db, lock, chain, call, llm, conn, res, trace>>

Released(p) == IF lock = Present(p) THEN Absent ELSE lock

\* managed_cursor after the yield, the body having returned: commit, close.
ManagedCursor_Exit(p) ==
    /\ pc[p] = "exit"
    /\ db' = ExitNormally(conn[p], db).store
    /\ conn' = [conn EXCEPT ![p] = ExitNormally(conn[p], db).conn]
    /\ lock' = Released(p)
    /\ pc' = [pc EXCEPT ![p] = "done"]
    /\ UNCHANGED <<chain, call, llm, res, trace>>

\* managed_cursor's except and finally: rollback, re-raise, close; the
\* error handler of the application answers 500.
ManagedCursor_Except(p) ==
    /\ pc[p] = "except"
    /\ db' = ExitRaising(conn[p], db).store
    /\ conn' = [conn EXCEPT ![p] = ExitRaising(conn[p], db).conn]
    /\ lock' = Released(p)
    /\ res' = [res EXCEPT ![p] = InternalError]
    /\ pc' = [pc EXCEPT ![p] = "done"]
    /\ UNCHANGED <<chain, call, llm, trace>>

\* The view function returned (or the error handler did): the response is
\* sent and the locals of the request are gone; the thread takes the next
\* request.
Respond(p) ==
    /\ pc[p] = "done"
    /\ pc' = [pc EXCEPT ![p] = "idle"]
    /\ call' = [call EXCEPT ![p] = NoCall]
    /\ llm' = [llm EXCEPT ![p] = NoLlm]
    /\ conn' = [conn EXCEPT ![p] = NoConn]
    /\ res' = [res EXCEPT ![p] = NoRes]
    /\ trace' = [trace EXCEPT ![p] = NoTrace]
    /\ UNCHANGED <<db, lock, chain>>

\* ------------------------------------------------------------ specifications
InCall(p) == pc[p] \notin {"idle", "done"}

\* A step of process p, its inputs drawn from the given sets.
Step(p, raws, bodies) ==
    \/ \E uid \in UserIds, body \in TextlessBodies : ProcessRequest_NoText(p, uid, body)
    \/ \E uid \in UserIds : ProcessRequest_Begin(p, uid)
    \/ ProcessRequest_Context(p)
    \/ \E raw \in raws : ProcessRequest_Translate(p, raw)
    \/ HandleInsert_Select(p)
    \/ HandleInsert_Insert(p)
    \/ HandleUpdate_Execute(p)
    \/ HandleDelete_Execute(p)
    \/ HandleQuery_Select(p)
    \/ \E uid \in UserIds, body \in bodies : AddSuggestedItem_Begin(p, uid, body)
    \/ AddItem_Select(p)
    \/ AddItem_Insert(p)
    \/ StorageFault(p)
    \/ CommitFault(p)
    \/ ManagedCursor_Exit(p)
    \/ ManagedCursor_Except(p)
    \/ Respond(p)

\* One call at a time: requests handled one after the other.
Next == Step("p1", RawOutputs, AddBodies)

Spec == Init /\ [][Next]_vars

\* The insert requests of the concurrent runs: ASCII contents that are equal
\* once trimmed and lowercased.
InsertContents == {<<"a">>, <<" ", "A", " ">>}

InsertOutputs ==
    {RawJson(Present(RawOp("INSERT", Clause(c), Absent)), Absent, Absent) :
        c \in InsertContents}

\* A step of an insert request of process p, by either endpoint.
InsertStep(p) ==
    \/ \E uid \in UserIds : ProcessRequest_Begin(p, uid)
    \/ ProcessRequest_Context(p)
    \/ \E raw \in InsertOutputs : ProcessRequest_Translate(p, raw)
    \/ HandleInsert_Select(p)
    \/ HandleInsert_Insert(p)
    \/ \E uid \in UserIds, content \in InsertContents :
            AddSuggestedItem_Begin(p, uid, Body("string", content))
    \/ AddItem_Select(p)
    \/ AddItem_Insert(p)
    \/ StorageFault(p)
    \/ CommitFault(p)
    \/ ManagedCursor_Exit(p)
    \/ ManagedCursor_Except(p)
    \/ Respond(p)

\* Insert requests of the server's threads, interleaved statement by
\* statement, each on its own connection.
NextConcurrent == \E p \in Procs : InsertStep(p)

SpecConcurrent == Init /\ [][NextConcurrent]_vars

\* ------------------------------------------------------------ vocabulary of the claims
Finished(p) == pc[p] = "done"

\* The call came back with a response of its own: nothing was raised.
Returned(p) == pc[p] = "done" /\ ~res[p].raised

ProcessRequest(p) == call[p].endpoint = "process_request"

Translated(p) == ProcessRequest(p) /\ llm[p].asked

\* The translation result carries an operation with one of these actions.
Routed(p, actions) ==
    /\ Translated(p)
    /\ IsSet(llm[p].response)
    /\ IsSet(Val(llm[p].response).database_operation)
    /\ DbOp(p).action \in actions

Executed(p, stmt) == \E i \in DOMAIN trace[p].stmts : trace[p].stmts[i] = stmt

Before(p) == call[p].before

\* Rows of the owner with the same trimmed, case-folded content.
SameNormalized(rows, uid, content) ==
    {r \in RowsOf(rows, uid) : Normalize(r.content) = Normalize(content)}

\* ------------------------------------------------------------ C1
\* C1: after any sequence of requests and add_item calls, no two stored
\* items of one owner have the same content once trimmed and case-folded.
C1_Uniqueness ==
    \A r1 \in db.rows, r2 \in db.rows :
        (r1.user_id = r2.user_id /\ Normalize(r1.content) = Normalize(r2.content))
            => r1 = r2

\* ------------------------------------------------------------ C2
\* A failure was raised inside the scoped transaction of the process_request
\* of p, by a statement or by the commit, and has reached the caller.
StorageFaulted(p) ==
    /\ Finished(p)
    /\ ProcessRequest(p)
    /\ res[p].raised
    /\ conn[p].opened > 0

\* C2: a process_request on which a storage fault was raised has been rolled
\* back when the failure reaches the caller: the committed table is what it
\* was when the request began, the connection is closed, nothing it wrote is
\* left pending and the write lock is free for the next request.
C2_FaultRollsBack ==
    \A p \in Procs :
        StorageFaulted(p) =>
            /\ db = Before(p)
            /\ conn[p].rollbacks = 1
            /\ conn[p].commits = 0
            /\ ~conn[p].open
            /\ conn[p].tx = Absent
            /\ lock # Present(p)

\* The INSERT of an Insert handler raised after its duplicate check had read
\* the table, the owner having items.
C2_Witness ==
    \E p \in Procs :
        /\ StorageFaulted(p)
        /\ conn[p].body = "raised"
        /\ trace[p].handlers = <<"INSERT">>
        /\ trace[p].stmts = <<"SELECT id, content", "SELECT id">>
        /\ RowsOf(db.rows, Uid(p)) # {}

\* ------------------------------------------------------------ C3
\* The table is as an Insert of some c by the owner has just left it: its
\* newest row is the owner's, holds a trimmed content with the normalized
\* form of `content`, and no other row of the owner answered the duplicate
\* check of that Insert.
JustInserted(store, uid, content) ==
    \E r \in RowsOf(store.rows, uid) :
        /\ r.id = store.seq
        /\ r.content = Strip(r.content)
        /\ Normalize(r.content) = Normalize(content)
        /\ SelectIdsByLowerContent(store.rows \ {r}, Normalize(r.content), uid) = {}

\* C3: an Insert that follows an Insert, by the same owner, of a content with
\* the same trimmed, lowercased form returns conflict with the identifier of
\* the first item, adds no row, and leaves exactly one such row, holding the
\* first content trimmed in its original case.
C3_InsertIdempotent ==
    \A p \in Procs :
        (/\ Returned(p)
         /\ Routed(p, {"INSERT"})
         /\ res[p].status \in {201, 409}
         /\ JustInserted(Before(p), Uid(p), RequestContent(p))) =>
            /\ res[p].status = 409
            /\ res[p].payload.itemId = Present(Before(p).seq)
            /\ db = Before(p)
            /\ Cardinality(SameNormalized(db.rows, Uid(p), RequestContent(p))) = 1

\* ------------------------------------------------------------ C4
UpdateOrDeleteRan(p) ==
    /\ Returned(p)
    /\ Routed(p, {"UPDATE", "DELETE"})
    /\ res[p].status \in {200, 404}

Target(p) == Val(DbOp(p).where).content

\* The target content is stored for another owner and not for the caller.
OnlyOthersHold(p) ==
    /\ MatchingRows(Before(p).rows, Target(p), Uid(p)) = {}
    /\ \E r \in Before(p).rows : r.user_id # Uid(p) /\ r.content = Target(p)

\* C4: no request run for an owner changes an item of another owner, and an
\* Update or Delete whose target exists only among other owners' items
\* yields not-found and changes nothing.
C4_OwnerIsolation ==
    \A p \in Procs :
        (Finished(p) /\ ProcessRequest(p)) =>
            /\ \A u \in UserIds \ {Uid(p)} :
                    RowsOf(db.rows, u) = RowsOf(Before(p).rows, u)
            /\ (UpdateOrDeleteRan(p) /\ OnlyOthersHold(p)) =>
                    (res[p].status = 404 /\ db.rows = Before(p).rows)

C4_Witness ==
    \E p \in Procs :
        /\ UpdateOrDeleteRan(p)
        /\ OnlyOthersHold(p)
        /\ res[p].status = 404
        /\ Executed(p, "UPDATE")

\* ------------------------------------------------------------ C5
TopLevelFields == {"database_operation", "ambiguous_request", "suggestion"}

FieldsSet(raw) == {f \in TopLevelFields : IsSet(raw[f])}

\* The model answered JSON whose operation, if any, is itself valid.
WellFormedJson(p) ==
    /\ Translated(p)
    /\ llm[p].raw.kind = "json"
    /\ IsSet(llm[p].raw.database_operation) =>
            DatabaseOperationValid(Val(llm[p].raw.database_operation))

\* C5: an LLMResponse with ambiguous_request set together with
\* database_operation or with suggestion is never constructed; with exactly
\* one of the three fields set, or with database_operation plus suggestion,
\* it always is.
C5_Exclusivity ==
    \A p \in Procs :
        WellFormedJson(p) =>
            LET set == FieldsSet(llm[p].raw)
            IN  /\ ("ambiguous_request" \in set /\ Cardinality(set) > 1)
                        => ~IsSet(llm[p].response)
                /\ (Cardinality(set) = 1 \/ set = {"database_operation", "suggestion"})
                        => IsSet(llm[p].response)

C5_Witness ==
    \E p \in Procs :
        /\ WellFormedJson(p)
        /\ FieldsSet(llm[p].raw) = {"ambiguous_request", "suggestion"}
        /\ ~IsSet(llm[p].response)

\* ------------------------------------------------------------ C6
\* C6: an Update or Delete whose target equals no stored content of the
\* owner exactly (a content equal only once trimmed or case-folded included)
\* yields not-found, and no row is changed or removed.
C6_ExactMatch ==
    \A p \in Procs :
        (/\ UpdateOrDeleteRan(p)
         /\ \A r \in RowsOf(Before(p).rows, Uid(p)) : r.content # Target(p)) =>
            /\ res[p].status = 404
            /\ res[p].payload.success = "false"
            /\ db.rows = Before(p).rows

\* The owner holds a row whose content differs from the target and equals it
\* once both are trimmed and case-folded.
C6_Witness ==
    \E p \in Procs :
        /\ UpdateOrDeleteRan(p)
        /\ Executed(p, "DELETE")
        /\ res[p].status = 404
        /\ \A r \in RowsOf(Before(p).rows, Uid(p)) : r.content # Target(p)
        /\ SameNormalized(Before(p).rows, Uid(p), Target(p)) # {}

\* ------------------------------------------------------------ C7
\* The scoped transaction of a process_request that has ended.
Scoped(p) == Finished(p) /\ ProcessRequest(p) /\ conn[p].opened = 1

\* C7 as claimed: every exit path closes the connection exactly once; a body
\* that exits without failure is committed and not rolled back; a body that
\* raises is rolled back, not committed, and the failure is re-raised.
C7_ExitPathsAsClaimed ==
    \A p \in Procs :
        Scoped(p) =>
            /\ conn[p].closes = 1
            /\ conn[p].body = "returned" =>
                    (conn[p].commits = 1 /\ conn[p].rollbacks = 0 /\ ~res[p].raised)
            /\ conn[p].body = "raised" =>
                    (conn[p].rollbacks = 1 /\ conn[p].commits = 0 /\ res[p].raised)

\* C7, amended: every exit path closes the connection exactly once; a body
\* that raises is rolled back, not committed, and the failure is re-raised; a
\* body that exits without failure is committed and not rolled back unless
\* the commit itself raises, and then the transaction is rolled back, not
\* committed, and that failure is raised to the caller.
C7_ExitPaths ==
    \A p \in Procs :
        /\ ProcessRequest(p) =>
                (conn[p].opened <= 1 /\ conn[p].closes <= conn[p].opened)
        /\ (ProcessRequest(p) /\ conn[p].open) => conn[p].closes = 0
        /\ Scoped(p) =>
            /\ conn[p].closes = 1
            /\ ~conn[p].open
            /\ conn[p].body \in {"returned", "raised"}
            /\ conn[p].commits + conn[p].rollbacks = 1
            /\ conn[p].body = "raised" =>
                    (conn[p].rollbacks = 1 /\ conn[p].commits = 0 /\ res[p].raised)
            /\ (conn[p].body = "returned" /\ ~res[p].raised) =>
                    (conn[p].commits = 1 /\ conn[p].rollbacks = 0)
            /\ (conn[p].body = "returned" /\ res[p].raised) =>
                    (conn[p].commits = 0 /\ conn[p].rollbacks = 1 /\ db = Before(p))
            /\ (~res[p].raised /\ res[p].status = 201) =>
                    \E r \in RowsOf(db.rows, Uid(p)) :
                        res[p].payload.itemId = Present(r.id)

\* An Insert handler returned, the commit raised, and the connection was
\* rolled back and closed once.
C7_Witness ==
    \E p \in Procs :
        /\ Scoped(p)
        /\ Executed(p, "INSERT")
        /\ conn[p].body = "returned"
        /\ res[p].raised
        /\ conn[p].closes = 1

\* ------------------------------------------------------------ C8
\* An insert request: add_item, or a process_request routed to Insert.
InsertRequest(p) ==
    \/ call[p].endpoint = "add_item"
    \/ (Routed(p, {"INSERT"}) /\ res[p].status \in {201, 409, 500})

\* C8: once two insert requests of one owner, with contents equal after
\* trimming and lowercasing, have both finished, however their statements
\* were interleaved, at most one row of the owner holds that content.
C8_ConcurrentInserts ==
    \A p \in Procs, q \in Procs :
        (/\ p # q
         /\ Finished(p) /\ Finished(q)
         /\ InsertRequest(p) /\ InsertRequest(q)
         /\ Uid(p) = Uid(q)
         /\ Normalize(RequestContent(p)) = Normalize(RequestContent(q))) =>
            Cardinality(SameNormalized(db.rows, Uid(p), RequestContent(p))) <= 1

\* ------------------------------------------------------------ C9
Ambiguous(p) ==
    /\ Translated(p)
    /\ IsSet(llm[p].response)
    /\ IsSet(Val(llm[p].response).ambiguous_request)

\* C9: when the translator returns an AmbiguousRequest, process_request
\* answers rejected-ambiguous (400, success false) with the model's message
\* as it was given, runs no handler and no statement after the context read,
\* and changes no item.
C9_Ambiguous ==
    \A p \in Procs :
        Ambiguous(p) =>
            /\ trace[p].handlers = <<>>
            /\ trace[p].stmts = <<"SELECT id, content">>
            /\ conn[p].tx = Absent
            /\ Finished(p) => db = Before(p)
            /\ Returned(p) =>
                /\ res[p].status = 400
                /\ res[p].payload.success = "false"
                /\ res[p].payload.error = Val(llm[p].raw.ambiguous_request).message
                /\ res[p].payload.suggestion = Absent

C9_Witness ==
    \E p \in Procs :
        /\ Ambiguous(p)
        /\ Returned(p)
        /\ res[p].payload.error = "items only"
        /\ RowsOf(db.rows, Uid(p)) # {}

\* ------------------------------------------------------------ C10
\* The model was asked and its output is no JSON or breaks the schema.
FailsValidation(p) ==
    /\ Translated(p)
    /\ chain
    /\ \/ llm[p].raw.kind = "garbage"
       \/ /\ llm[p].raw.kind = "json"
          /\ \/ /\ IsSet(llm[p].raw.database_operation)
                /\ ~DatabaseOperationValid(Val(llm[p].raw.database_operation))
             \/ ~CheckExclusiveFields(llm[p].raw.database_operation,
                                      llm[p].raw.ambiguous_request,
                                      llm[p].raw.suggestion)

TranslationUnavailable(p) ==
    /\ res[p].status = 500
    /\ res[p].payload.error = "Failed to understand the request or LLM is not configured."

\* C10 as claimed: model output that fails parsing or validation gives a
\* translation failure, surfaced as translation-unavailable, and the request
\* makes no storage access.
C10_NoStorageAccessAsClaimed ==
    \A p \in Procs :
        FailsValidation(p) =>
            /\ ~IsSet(llm[p].response)
            /\ Returned(p) => TranslationUnavailable(p)
            /\ trace[p].stmts = <<>>

\* C10, amended: model output that fails parsing or validation gives a
\* translation failure and never an operation, surfaced as
\* translation-unavailable; no handler runs, no item changes, and the one
\* storage access of the request is the context read made before the
\* translator is called.
C10_TranslationFailure ==
    \A p \in Procs :
        FailsValidation(p) =>
            /\ ~IsSet(llm[p].response)
            /\ Returned(p) => TranslationUnavailable(p)
            /\ trace[p].handlers = <<>>
            /\ trace[p].stmts = <<"SELECT id, content">>
            /\ conn[p].tx = Absent
            /\ Finished(p) => db = Before(p)

\* An unknown action literal, with items stored for the owner.
C10_Witness ==
    \E p \in Procs :
        /\ FailsValidation(p)
        /\ Returned(p)
        /\ llm[p].raw.kind = "json"
        /\ IsSet(llm[p].raw.database_operation)
        /\ Val(llm[p].raw.database_operation).action = "DROP"
        /\ RowsOf(db.rows, Uid(p)) # {}


\* ------------------------------------------------------------ C11
\* The translation result carried a Suggestion.
CarriedSuggestion(p) ==
    /\ Translated(p)
    /\ IsSet(llm[p].response)
    /\ IsSet(Val(llm[p].response).suggestion)

\* C11: the payload of a process_request holds a suggestion block exactly
\* when the status code is below 300 and the translation result carried a
\* Suggestion, and the block is that Suggestion's message and items; a
\* conflict, not-found, bad-request or rejected-ambiguous outcome holds none.
C11_SuggestionAttached ==
    \A p \in Procs :
        (Returned(p) /\ ProcessRequest(p)) =>
            /\ IsSet(res[p].payload.suggestion) <=>
                    (res[p].status < 300 /\ CarriedSuggestion(p))
            /\ IsSet(res[p].payload.suggestion) =>
                    res[p].payload.suggestion = Val(llm[p].response).suggestion
            /\ res[p].status \in {400, 404, 409} =>
                    res[p].payload.suggestion = Absent

\* A conflict whose translation result had a Suggestion.
C11_Witness ==
    \E p \in Procs :
        /\ Returned(p)
        /\ CarriedSuggestion(p)
        /\ res[p].status = 409
        /\ res[p].payload.suggestion = Absent


\* ------------------------------------------------------------ C12
\* The Update or Delete of p ran and no row of the owner held the target.
NoMatch(p) ==
    /\ UpdateOrDeleteRan(p)
    /\ MatchingRows(Before(p).rows, Target(p), Uid(p)) = {}

\* C12: an Update or Delete that matches no row of the owner answers
\* not-found with no row affected; its transaction is committed, not rolled
\* back, and the stored items are what they were.
C12_NoMatchCommits ==
    \A p \in Procs :
        NoMatch(p) =>
            /\ res[p].status = 404
            /\ res[p].payload.success = "false"
            /\ res[p].payload.message.n = 0
            /\ conn[p].commits = 1
            /\ conn[p].rollbacks = 0
            /\ db = Before(p)

\* An Update of a content the owner, who has items, does not hold.
C12_Witness ==
    \E p \in Procs :
        /\ NoMatch(p)
        /\ Executed(p, "UPDATE")
        /\ res[p].status = 404
        /\ conn[p].commits = 1
        /\ RowsOf(db.rows, Uid(p)) # {}


\* ------------------------------------------------------------ C13
\* A data or where clause that is missing or whose content is empty.
NoContent(clause) == ~IsSet(clause) \/ ~Truthy(Val(clause).content)

\* The operation routed for p lacks a content its handler needs.
Malformed(p) ==
    \/ Routed(p, {"INSERT"}) /\ NoContent(DbOp(p).data)
    \/ Routed(p, {"UPDATE"}) /\ (NoContent(DbOp(p).data) \/ NoContent(DbOp(p).where))
    \/ Routed(p, {"DELETE"}) /\ NoContent(DbOp(p).where)

\* C13: an Insert without content, an Update without new or target content
\* and a Delete without target content (missing or empty) answer bad-request
\* from the handler, which executes no statement: the request has run the
\* context read only, nothing is pending and no row is changed.
C13_BadRequestBeforeStorage ==
    \A p \in Procs :
        Malformed(p) =>
            /\ trace[p].handlers = <<DbOp(p).action>>
            /\ trace[p].stmts = <<"SELECT id, content">>
            /\ conn[p].tx = Absent
            /\ Finished(p) => db = Before(p)
            /\ Returned(p) =>
                /\ res[p].status = 400
                /\ res[p].payload.error # ""
                /\ res[p].payload.suggestion = Absent

\* An Update with a target and an empty new content, the owner having items.
C13_Witness ==
    \E p \in Procs :
        /\ Malformed(p)
        /\ Returned(p)
        /\ Routed(p, {"UPDATE"})
        /\ IsSet(DbOp(p).data)
        /\ ~NoContent(DbOp(p).where)
        /\ res[p].status = 400
        /\ RowsOf(db.rows, Uid(p)) # {}


\* ------------------------------------------------------------ C14
\* The Insert of p returned, its content being non-empty and equal, once
\* trimmed and lowercased, to no item the owner had.
FreshInsert(p) ==
    /\ Returned(p)
    /\ Routed(p, {"INSERT"})
    /\ ~NoContent(DbOp(p).data)
    /\ SameNormalized(Before(p).rows, Uid(p), RequestContent(p)) = {}

\* The row an Insert of p creates.
CreatedRow(p) ==
    [id |-> Before(p).seq + 1, content |-> Strip(RequestContent(p)), user_id |-> Uid(p)]

\* C14: an Insert whose trimmed, lowercased content matches no item of the
\* owner answers success-created with an identifier no row had, adds one row
\* of that owner holding the trimmed content in its original case, and
\* leaves every other row as it was.
C14_InsertCreates ==
    \A p \in Procs :
        FreshInsert(p) =>
            /\ res[p].status = 201
            /\ res[p].payload.success = "true"
            /\ res[p].payload.itemId = Present(CreatedRow(p).id)
            /\ \A r \in Before(p).rows : r.id # CreatedRow(p).id
            /\ db.rows = Before(p).rows \cup {CreatedRow(p)}
            /\ Cardinality(RowsOf(db.rows, Uid(p))) =
                    Cardinality(RowsOf(Before(p).rows, Uid(p))) + 1

\* " A " is added as "A" to an owner who has an item.
C14_Witness ==
    \E p \in Procs :
        /\ FreshInsert(p)
        /\ res[p].status = 201
        /\ RequestContent(p) = <<" ", "A", " ">>
        /\ RowsOf(Before(p).rows, Uid(p)) # {}
        /\ \E r \in db.rows : r.content = <<"A">> /\ r.id = Before(p).seq + 1


\* ------------------------------------------------------------ C15
QueryRan(p) == Returned(p) /\ Routed(p, {"QUERY"})

\* `items` lists the contents of `rows`, each once, in the order of the
\* rows' identifiers.
ListsInStoreOrder(items, rows) ==
    /\ Len(items) = Cardinality(rows)
    /\ \A r \in rows : items[Cardinality({o \in rows : o.id < r.id}) + 1] = r.content

\* C15: a Query answers success and changes no item; its message is the
\* "no items" sentence for an owner without items, the singular sentence
\* naming the item for an owner with one, and for an owner with more the
\* sentence listing every item of that owner, and no other, in store order.
C15_QueryGrammar ==
    \A p \in Procs :
        QueryRan(p) =>
            LET own == RowsOf(Before(p).rows, Uid(p))
                message == res[p].payload.message
            IN  /\ res[p].status = 200
                /\ res[p].payload.success = "true"
                /\ res[p].payload.action_type = "query"
                /\ db = Before(p)
                /\ message.n = Cardinality(own)
                /\ ListsInStoreOrder(message.args, own)
                /\ Cardinality(own) = 0 =>
                        message.text = "You do not have any items on your list."
                /\ Cardinality(own) = 1 =>
                        message.text = "You have one item: '{0}'."
                /\ Cardinality(own) >= 2 =>
                        message.text = "Your items are: '{0}', '{1}', ... ."

\* Two items listed in the order of their identifiers, which is not the
\* order they were first inserted with: the older row was updated.
C15_Witness ==
    \E p \in Procs :
        /\ QueryRan(p)
        /\ res[p].payload.message.n = 2
        /\ res[p].payload.message.args = <<<<" ", "A", " ">>, <<"E_ACUTE">>>>


\* ------------------------------------------------------------ C16
\* The model, being configured, answered JSON holding an operation.
ModelGaveOperation(p) ==
    /\ Translated(p)
    /\ chain
    /\ llm[p].raw.kind = "json"
    /\ IsSet(llm[p].raw.database_operation)

RawOperation(p) == Val(llm[p].raw.database_operation)

UnknownAction(op) == op.action \notin Actions

\* The operation lacks a clause its action works on.
ShapeMismatch(op) ==
    \/ op.action = "INSERT" /\ ~IsSet(op.data)
    \/ op.action = "UPDATE" /\ (~IsSet(op.data) \/ ~IsSet(op.where))
    \/ op.action = "DELETE" /\ ~IsSet(op.where)

\* C16: constructing the operation fails for an unknown action and for
\* data/where that do not fit the action (Insert without data, Update without
\* where or without data, Delete without where), so that no such operation
\* reaches the dispatcher.
C16_SchemaRejectsShapeAsClaimed ==
    \A p \in Procs :
        (ModelGaveOperation(p)
            /\ (UnknownAction(RawOperation(p)) \/ ShapeMismatch(RawOperation(p)))) =>
                /\ ~IsSet(llm[p].response)
                /\ trace[p].handlers = <<>>


\* ------------------------------------------------------------ C17
\* The statements the handler of an action executes.
HandlerStatements(action) ==
    IF action = "INSERT" THEN {"SELECT id", "INSERT"}
    ELSE IF action = "UPDATE" THEN {"UPDATE"}
    ELSE IF action = "DELETE" THEN {"DELETE"}
    ELSE IF action = "QUERY" THEN {"SELECT content"}
    ELSE {}

\* The statements of the request after the context read.
HandlerTrace(p) == SubSeq(trace[p].stmts, 2, Len(trace[p].stmts))

\* C17: a process_request runs at most one handler; when the translation
\* result carries an operation it runs the handler of the operation's
\* action, once, and no other: every statement after the context read is one
\* of that handler, executed once, and only rows of the caller are written.
C17_OneHandler ==
    \A p \in Procs :
        ProcessRequest(p) =>
            /\ Len(trace[p].handlers) <= 1
            /\ Routed(p, Actions) => trace[p].handlers = <<DbOp(p).action>>
            /\ ~Routed(p, Actions) => (trace[p].handlers = <<>> /\ HandlerTrace(p) = <<>>)
            /\ \A i \in DOMAIN HandlerTrace(p) :
                    /\ HandlerTrace(p)[i] \in HandlerStatements(trace[p].handlers[1])
                    /\ \A j \in DOMAIN HandlerTrace(p) :
                            HandlerTrace(p)[i] = HandlerTrace(p)[j] => i = j
            /\ Finished(p) =>
                    \A r \in (db.rows \ Before(p).rows) \cup (Before(p).rows \ db.rows) :
                        r.user_id = Uid(p)

\* A Delete removed an item of the caller while another owner has items.
C17_Witness ==
    \E p \in Procs :
        /\ Returned(p)
        /\ Routed(p, {"DELETE"})
        /\ trace[p].handlers = <<"DELETE">>
        /\ trace[p].stmts = <<"SELECT id, content", "DELETE">>
        /\ res[p].status = 200
        /\ \E r \in db.rows : r.user_id # Uid(p)


\* ------------------------------------------------------------ C18
\* The model call of p failed or its output could not be parsed.
ModelFailed(p) == Translated(p) /\ chain /\ llm[p].raw.kind \in {"raise", "garbage"}

\* C18: a translate call invokes the external model once when the model is
\* configured, a failed call included (nothing is retried), and not at all
\* when the model is not configured: the translation then fails at once.
\* Before the translate call of a request the model is not invoked.
C18_ModelInvocations ==
    \A p \in Procs :
        /\ (ProcessRequest(p) /\ ~llm[p].asked) => trace[p].llm_calls = 0
        /\ (Translated(p) /\ chain) => trace[p].llm_calls = 1
        /\ ModelFailed(p) => ~IsSet(llm[p].response)
        /\ (Translated(p) /\ ~chain) =>
                /\ trace[p].llm_calls = 0
                /\ ~IsSet(llm[p].response)
                /\ trace[p].handlers = <<>>
                /\ Returned(p) => TranslationUnavailable(p)

\* The one call of a configured model raised and the request was answered.
C18_Witness ==
    \E p \in Procs :
        /\ ModelFailed(p)
        /\ llm[p].raw.kind = "raise"
        /\ trace[p].llm_calls = 1
        /\ Returned(p)
        /\ TranslationUnavailable(p)


\* ------------------------------------------------------------ C19
\* C19: an Update or Delete that reports success found exactly one row of
\* the owner holding the target and affected that one row: the row count it
\* reports is 1.
C19_ExactlyOneRow ==
    \A p \in Procs :
        (UpdateOrDeleteRan(p) /\ res[p].status = 200) =>
            /\ res[p].payload.message.n = 1
            /\ Cardinality(MatchingRows(Before(p).rows, Target(p), Uid(p))) = 1


\* ------------------------------------------------------------ C20
\* The outcome of p is success-created, success-updated or success-deleted.
SuccessfulMutation(p) ==
    /\ Returned(p)
    /\ \/ res[p].status = 201
       \/ res[p].status = 200 /\ Routed(p, {"UPDATE", "DELETE"})

\* C20: a process_request that ended with any outcome other than
\* success-created, success-updated or success-deleted (query, conflict,
\* not-found, bad-request, rejected-ambiguous, translation-unavailable, no
\* operation, and the internal error of a storage fault) left the items of
\* every owner, and the identifier counter, as they were before the call.
C20_NonSuccessFrame ==
    \A p \in Procs :
        (Finished(p) /\ ProcessRequest(p) /\ ~SuccessfulMutation(p)) =>
            /\ db = Before(p)
            /\ \A u \in UserIds : RowsOf(db.rows, u) = RowsOf(Before(p).rows, u)

\* A conflict: the Insert handler found the item and the table is as before,
\* both owners having items.
C20_Witness ==
    \E p \in Procs :
        /\ Returned(p)
        /\ Routed(p, {"INSERT"})
        /\ res[p].status = 409
        /\ Executed(p, "SELECT id")
        /\ \A u \in UserIds : RowsOf(db.rows, u) # {}


\* ------------------------------------------------------------ C21
\* C21: after any sequence of requests and add_item calls, no stored item
\* has the empty string as its content.
C21_NonEmptyContent ==
    \A r \in db.rows : r.content # Empty


\* ------------------------------------------------------------ C22
\* The translation result was constructed and holds neither an operation nor
\* a request for clarification: no field at all, or a suggestion alone.
NoOperation(p) ==
    /\ Translated(p)
    /\ IsSet(llm[p].response)
    /\ ~IsSet(Val(llm[p].response).database_operation)
    /\ ~IsSet(Val(llm[p].response).ambiguous_request)

\* C22: when the translation result holds neither an operation nor an
\* ambiguous request, process_request answers an error (500, no operation
\* returned), runs no handler and no statement after the context read,
\* attaches no suggestion, and changes no item.
C22_NoOperation ==
    \A p \in Procs :
        NoOperation(p) =>
            /\ trace[p].handlers = <<>>
            /\ trace[p].stmts = <<"SELECT id, content">>
            /\ conn[p].tx = Absent
            /\ Finished(p) => db = Before(p)
            /\ Returned(p) =>
                /\ res[p].status = 500
                /\ res[p].payload.success # "true"
                /\ res[p].payload.error = "LLM did not return a valid database operation."
                /\ res[p].payload.suggestion = Absent

\* A suggestion alone, for an owner who has items.
C22_Witness ==
    \E p \in Procs :
        /\ NoOperation(p)
        /\ IsSet(Val(llm[p].response).suggestion)
        /\ Returned(p)
        /\ res[p].status = 500
        /\ RowsOf(db.rows, Uid(p)) # {}

====
